---- MODULE Spec2Model ----
(***************************************************************************)
(* A model of the huffman package: the bit-level writer and reader of      *)
(* bitio.go, and the Code, its marshalling, the Encoder and the Decoder of *)
(* huffman.go.                                                             *)
(*                                                                         *)
(* Machine words are modelled bit by bit: a uint64 is a function from      *)
(* 0..63 to {0,1}, a uint32 a function from 0..31 to {0,1} (index 0 is the *)
(* least significant bit), so that shifts lose exactly the bits that the   *)
(* Go operators lose.  Bytes are integers in 0..255.                       *)
(***************************************************************************)
EXTENDS Integers, Sequences, FiniteSets, TLC

VARIABLES
    pc,       \* position of the client program driving the objects
    w,        \* bitWriter: [err, bits, nbits]
    sink,     \* the io.Writer under the bitWriter: [data, calls, failAt]
    r,        \* bitReader: [err, remaining, bits, nbits]
    src,      \* the io.Reader under the bitReader: [data, pos]
    style,    \* the kind of values the client writes
    wrote,    \* history: the bits handed to writeBits, in stream order
    widths,   \* history: the width of every writeBits call
    closeRet, \* what the last Close returned
    budget,   \* the bit budget the bitReader was constructed with
    got,      \* history: the bits returned by successful readBits calls
    rd,       \* history of the reads: [idx, off, ok], the value being read,
              \* the bits of it already read, and whether no read of a
              \* value has failed
    lastRead, \* the error the last readBits returned
    peeked,   \* what peek returned if it was the last call: [val, err]
    late,     \* history: <<call, error returned>> of every call on a bitReader
              \* whose err is set when the call returns
    codes,    \* a Code: the sequence of bitcodes [val, len]; symbol s is at s + 1
    marsh,    \* the bytes Marshal returned, or the bytes handed to UnmarshalCode
    ucode,    \* what UnmarshalCode returned: [code, codes, err]; code is
              \* "nil" for a nil *Code and codes are the codes of a Code
    freqs,    \* the frequency table handed to NewCode, as runs <<frequency, count>>
    freqs32,  \* the []int32 NewCode hands to the generator, as runs <<frequency, count>>
    ncode,    \* what NewCode returned when it rejected the table: [code, err]
    hist,     \* history: the calls made on the Encoder, <<"Write", data>> or
              \* <<"Close">>, in order
    wret,     \* what the last Encoder.Write returned: [n, err]
    table,    \* the Decoder's table: slot -> action [sym, len, table]
    decoded,  \* what the Decoder's read operation returned: [via, syms, n, err]
    cb,       \* CodeBuilder: [split, freqs]
    cbhist,   \* history: the data of every CodeBuilder.Write call, in order
    cbret     \* what the last CodeBuilder.Write returned: [n, err]

bitVars ==
    <<w, sink, r, src, style, wrote, widths, closeRet, budget, got, rd, lastRead,
      peeked, late>>
codeVars == <<codes, marsh, ucode, freqs, ncode, freqs32>>
encVars == <<hist, wret, table, decoded>>
cbVars == <<cb, cbhist, cbret>>
vars == <<pc, bitVars, codeVars, encVars, cbVars>>

----------------------------------------------------------------------------
(* Bounds of the model. *)

\* Number of writeBits calls made on one bitWriter.
MaxWrites == 3

\* The widths writeBits is called with (the code allows 1..32).
Widths == {1, 8, 32}

\* The values one client writes: every bit of every value set, the
\* odd-numbered bits of every value set, or the two kinds in turn.
Styles == {"ones", "odd", "mixed"}

\* The widths readBits is called with (the code allows 1..8).
ReadWidths == 1..8

\* Budgets a bitReader is opened with, besides the number of bits written
\* and one byte more than the source holds.
Budgets == {8}

\* Number of calls made on a bitReader after its err was set.
MaxLate == 2

\* Codes given symbol by symbol: at most MaxSyms symbols, lengths in SmallLens.
MaxSyms == 4
SmallLens == {0, 1, 2, 3, 16, 20}

\* Codes given run by run: at most MaxRuns runs <<length, repeat>>, with
\* repeats below, at and above what one byte of the marshal format carries.
MaxRuns == 2
RunChoices ==
    { <<0, 5>>, <<0, 128>>, <<0, 130>>,
      <<2, 5>>, <<2, 16>>, <<2, 17>>,
      <<17, 5>>, <<17, 16>>, <<17, 17>> }

\* Bytes handed to UnmarshalCode that Marshal did not produce: at most MaxRaw
\* bytes out of RawBytes (the magic byte, a byte of each format, a bad magic).
MaxRaw == 3
RawBytes == {192, 0, 129, 5, 255, 65}

\* A frequency is a Go int, 64 bits wide (as on amd64 and arm64): the pair
\* <<hi, lo>> stands for hi * 2^16 + lo, with lo in 0..65535.
Half == 65536
GoInt(n) == <<n \div Half, n % Half>>

\* Frequency tables handed to NewCode: at most MaxFreqRuns runs
\* <<frequency, count>> out of FreqRuns, which reach 2^20 entries exactly,
\* stay below and go beyond; the frequencies are 0, 3, -1, 1, 2^31 - 1,
\* 2^31 + 5 and 2^32.
MaxFreqRuns == 2
FreqRuns ==
    { <<GoInt(0), 1>>, <<GoInt(3), 1>>, <<GoInt(-1), 1>>, <<GoInt(1), 1048575>>,
      <<GoInt(0), 1048576>>, <<GoInt(2147483647), 1>>, <<<<32768, 5>>, 1>>,
      <<<<65536, 0>>, 1>> }

\* Number of calls (Write or Close) made on one Encoder.
MaxOps == 3

\* The lengths of the Huffman codes an Encoder is built on, besides the code
\* of TestEncoder: RFC 1951's example, a code with an unused symbol and a
\* code with symbols longer than a table index.
EncLengths == {<<2, 1, 3, 3>>, <<1, 0, 2, 2>>, <<1, 2, 20, 20>>}

\* The data handed to Encoder.Write: the slices of TestEncoder's input, and
\* a slice with a byte that is above the largest symbol.
DataChoices == {<<1>>, <<1, 3>>, <<2, 0>>, <<3, 2, 0>>, <<1, 3, 2, 0>>, <<2, 4>>}

\* The call of the sink's Write that fails first (0: none fails).
FailAts == {0, 1, 2}

\* Number of CodeBuilder.Write calls, and the data handed to them.
MaxCBWrites == 3
CBData == DataChoices \cup {<< >>}

----------------------------------------------------------------------------
(* Machine words. *)

Min(a, b) == IF a < b THEN a ELSE b

Zero64 == [i \in 0..63 |-> 0]

\* uint64(u) for a uint32 u: zero extension.
uint64(u) == [i \in 0..63 |-> IF i < 32 THEN u[i] ELSE 0]

\* x << k and x >> k on a uint64, x << k on a uint32, x | y.
Shl64(x, k) == [i \in 0..63 |-> IF i >= k THEN x[i - k] ELSE 0]
Shr64(x, k) == [i \in 0..63 |-> IF i + k <= 63 THEN x[i + k] ELSE 0]
Shl32(u, k) == [i \in 0..31 |-> IF i >= k THEN u[i - k] ELSE 0]
Or64(x, y) == [i \in 0..63 |-> IF x[i] = 1 \/ y[i] = 1 THEN 1 ELSE 0]

\* byte(x): the low eight bits of a word, as a number.
byte(x) ==
    x[0] + 2 * x[1] + 4 * x[2] + 8 * x[3] + 16 * x[4] + 32 * x[5] + 64 * x[6] + 128 * x[7]

\* Bit k of the byte b.
BitOf(b, k) == (b \div (2 ^ k)) % 2

\* lowOrderBits returns the n low-order bits of u.
lowOrderBits(u, n) == [i \in DOMAIN u |-> IF i < n THEN u[i] ELSE 0]

\* The n-bit value a client of style st writes in its k-th call, as a uint32.
Value(st, k, n) ==
    [i \in 0..31 |->
        IF i >= n THEN 0
        ELSE IF st = "ones" \/ (st = "mixed" /\ k % 2 = 0) THEN 1
        ELSE i % 2]

\* The low n bits of a word as a sequence, bit 0 first.
BitSeq(x, n) == [k \in 1..n |-> x[k - 1]]

\* The low n bits of a byte as a sequence, bit 0 first.
ByteBits(b, n) == [k \in 1..n |-> BitOf(b, k - 1)]

\* byte[3] | byte[2] | byte[1] | byte[0] of a 4-byte buffer, as a uint32.
WordOf(buf) == [i \in 0..31 |-> BitOf(buf[i \div 8], i % 8)]

----------------------------------------------------------------------------
(* The sink: an io.Writer that accepts everything until its failAt-th call *)
(* (failAt = 0: it never fails) and fails from then on, each failure with  *)
(* an error of its own.                                                    *)

NoErr == << >>

SinkWrite(sk, buf) ==
    LET c == sk.calls + 1 IN
    IF sk.failAt > 0 /\ c >= sk.failAt
    THEN [sink |-> [sk EXCEPT !.calls = c], err |-> <<c>>]
    ELSE [sink |-> [sk EXCEPT !.calls = c, !.data = @ \o buf], err |-> NoErr]

----------------------------------------------------------------------------
(* bitWriter.  The operators take and return s = [w |-> ..., sink |-> ...]. *)

\* write without the check of the stored error.
writeUnlatched(s, buf) ==
    LET res == SinkWrite(s.sink, buf)
    IN  [w |-> [s.w EXCEPT !.err = res.err], sink |-> res.sink]

write(s, buf) ==
    IF s.w.err # NoErr
    THEN s
    ELSE LET res == SinkWrite(s.sink, buf)
         IN  [w |-> [s.w EXCEPT !.err = res.err], sink |-> res.sink]

\* writeBits with the new bits or-ed in at position 0 instead of above the
\* buffered ones.
writeBitsUnshifted(s, b, n) ==
    IF s.w.err # NoErr
    THEN s
    ELSE LET bits1 == Or64(s.w.bits, uint64(b))
             nbits1 == s.w.nbits + n
         IN  IF nbits1 > 32
             THEN write([w |-> [s.w EXCEPT !.bits = Shr64(bits1, 32),
                                           !.nbits = nbits1 - 32],
                         sink |-> s.sink],
                        << byte(bits1), byte(Shr64(bits1, 8)),
                           byte(Shr64(bits1, 16)), byte(Shr64(bits1, 24)) >>)
             ELSE [w |-> [s.w EXCEPT !.bits = bits1, !.nbits = nbits1],
                   sink |-> s.sink]

writeBits(s, b, n) ==
    IF s.w.err # NoErr
    THEN s
    ELSE LET bits1 == Or64(s.w.bits, Shl64(uint64(b), s.w.nbits))
             nbits1 == s.w.nbits + n
         IN  IF nbits1 > 32
             THEN write([w |-> [s.w EXCEPT !.bits = Shr64(bits1, 32),
                                           !.nbits = nbits1 - 32],
                         sink |-> s.sink],
                        << byte(bits1), byte(Shr64(bits1, 8)),
                           byte(Shr64(bits1, 16)), byte(Shr64(bits1, 24)) >>)
             ELSE [w |-> [s.w EXCEPT !.bits = bits1, !.nbits = nbits1],
                   sink |-> s.sink]

RECURSIVE flushLoop(_, _, _)
flushLoop(bw, i, buf) ==
    IF i < 4 /\ bw.nbits > 0
    THEN flushLoop([bw EXCEPT !.bits = Shr64(bw.bits, 8),
                              !.nbits = IF bw.nbits > 8 THEN bw.nbits - 8 ELSE 0],
                   i + 1, Append(buf, byte(bw.bits)))
    ELSE [w |-> bw, buf |-> buf]

flush(s) ==
    LET l == flushLoop(s.w, 0, << >>)
    IN  write([w |-> l.w, sink |-> s.sink], l.buf)

\* bitWriter.Close: the state after it; it returns the err of that state.
Close(s) == flush(s)

newBitWriter == [err |-> NoErr, bits |-> Zero64, nbits |-> 0]

----------------------------------------------------------------------------
(* The source: a bytes.Reader.  Read(buf[0:4]) copies the next min(4,      *)
(* unread) bytes and returns io.EOF, with no bytes, once none are left.    *)

SourceRead(sc) ==
    LET n == Min(4, Len(sc.data) - sc.pos)
    IN  [n |-> n,
         buf |-> [j \in 0..3 |-> IF j < n THEN sc.data[sc.pos + j + 1] ELSE 0],
         src |-> [sc EXCEPT !.pos = @ + n]]

----------------------------------------------------------------------------
(* bitReader.  The operators take and return s = [r |-> ..., src |-> ...]. *)

\* fill reporting the plain EOF whenever the source has ended.
fillPlainEOF(s) ==
    LET rdres == SourceRead(s.src) IN
    IF rdres.n = 0
    THEN [r |-> [s.r EXCEPT !.err = "EOF"], src |-> rdres.src]
    ELSE LET u == WordOf(rdres.buf)
         IN  [r |-> [s.r EXCEPT
                       !.bits = Or64(uint64(Shl32(u, s.r.nbits)),
                                     lowOrderBits(s.r.bits, s.r.nbits)),
                       !.nbits = Min(s.r.nbits + rdres.n * 8, s.r.remaining)],
              src |-> rdres.src]

fill(s) ==
    LET rdres == SourceRead(s.src) IN
    IF rdres.n = 0
    THEN [r |-> [s.r EXCEPT !.err = IF s.r.remaining = 0
                                     THEN "EOF" ELSE "ErrUnexpectedEOF"],
          src |-> rdres.src]
    ELSE LET u == WordOf(rdres.buf)
         IN  [r |-> [s.r EXCEPT
                       !.bits = Or64(uint64(Shl32(u, s.r.nbits)),
                                     lowOrderBits(s.r.bits, s.r.nbits)),
                       !.nbits = Min(s.r.nbits + rdres.n * 8, s.r.remaining)],
              src |-> rdres.src]

newBitReader(data, n) ==
    fill([r |-> [err |-> "nil", remaining |-> n, bits |-> Zero64, nbits |-> 0],
          src |-> [data |-> data, pos |-> 0]])

\* readBits(n): the state after it, and what it returns.
readBits(s, n) ==
    IF s.r.err # "nil"
    THEN [r |-> s.r, src |-> s.src, val |-> 0, err |-> s.r.err]
    ELSE IF n <= 0 \/ n > 8
    THEN [r |-> s.r, src |-> s.src, val |-> 0, err |-> "panic"]
    ELSE IF n > s.r.remaining
    THEN [r |-> s.r, src |-> s.src, val |-> 0, err |-> "ErrUnexpectedEOF"]
    ELSE LET s1 == IF s.r.nbits < n THEN fill(s) ELSE s IN
         IF s1.r.err # "nil"
         THEN [r |-> s1.r, src |-> s1.src, val |-> 0, err |-> s1.r.err]
         ELSE IF s1.r.nbits < n
         THEN [r |-> s1.r, src |-> s1.src, val |-> 0, err |-> "panic"]
         ELSE [r |-> [s1.r EXCEPT !.nbits = @ - n, !.bits = Shr64(@, n)],
               src |-> s1.src,
               val |-> byte(lowOrderBits(s1.r.bits, n)),
               err |-> "nil"]

\* peek: what it returns; it assigns nothing.
peek(br) ==
    IF br.err # "nil" THEN [val |-> 0, err |-> br.err]
    ELSE IF br.nbits = 0 THEN [val |-> 0, err |-> "EOF"]
    ELSE [val |-> byte(lowOrderBits(br.bits, 8)), err |-> "nil"]

----------------------------------------------------------------------------
(* The bit-level program: a client makes up to MaxWrites writeBits calls   *)
(* on a bitWriter over a sink that never fails, closes it, opens a         *)
(* bitReader on the bytes the sink received and reads from it.             *)

NoReader == [err |-> "nil", remaining |-> 0, bits |-> Zero64, nbits |-> 0]

\* peek was not the last call.
NoPeek == [val |-> 0, err |-> "none"]

\* No Code is under study.
CodeIdle ==
    /\ codes = << >>
    /\ marsh = << >>
    /\ ucode = [code |-> "nil", codes |-> << >>, err |-> "nil"]
    /\ ncode = [code |-> "nil", err |-> "nil"]
    /\ freqs32 = << >>
    /\ freqs = << >>

\* No Encoder and no Decoder is in use.
NoTable == << >>
NoRead == [via |-> "none", syms |-> << >>, n |-> 0, err |-> "nil"]

\* No CodeBuilder is in use.
CBIdle ==
    /\ cb = [split |-> "nil", freqs |-> << >>]
    /\ cbhist = << >>
    /\ cbret = [n |-> 0, err |-> NoErr]

EncIdle ==
    /\ hist = << >>
    /\ wret = [n |-> 0, err |-> NoErr]
    /\ table = NoTable
    /\ decoded = NoRead

InitBits ==
    /\ pc = "writing"
    /\ w = newBitWriter
    /\ sink = [data |-> << >>, calls |-> 0, failAt |-> 0]
    /\ r = NoReader
    /\ src = [data |-> << >>, pos |-> 0]
    /\ style \in Styles
    /\ wrote = << >>
    /\ widths = << >>
    /\ closeRet = NoErr
    /\ budget = 0
    /\ got = << >>
    /\ rd = [idx |-> 1, off |-> 0, ok |-> TRUE]
    /\ lastRead = "nil"
    /\ peeked = NoPeek
    /\ late = << >>
    /\ CodeIdle
    /\ EncIdle
    /\ CBIdle

WriteBits(n) ==
    /\ pc = "writing"
    /\ Len(widths) < MaxWrites
    /\ \E b \in {Value(style, Len(widths) + 1, n)} :
           /\ \E s \in {writeBits([w |-> w, sink |-> sink], b, n)} :
                  w' = s.w /\ sink' = s.sink
           /\ wrote' = wrote \o BitSeq(b, n)
    /\ widths' = Append(widths, n)
    /\ UNCHANGED <<pc, r, src, style, closeRet, budget, got, rd, lastRead, peeked, late,
                   codeVars, encVars, cbVars>>

CloseWriter ==
    /\ pc = "writing"
    /\ \E s \in {Close([w |-> w, sink |-> sink])} :
           w' = s.w /\ sink' = s.sink /\ closeRet' = s.w.err
    /\ pc' = "closed"
    /\ UNCHANGED <<r, src, style, wrote, widths, budget, got, rd, lastRead, peeked, late,
                   codeVars, encVars, cbVars>>

NewBitReader(n) ==
    /\ pc = "closed"
    /\ \E s \in {newBitReader(sink.data, n)} :
           r' = s.r /\ src' = s.src
    /\ budget' = n
    /\ pc' = "reading"
    /\ UNCHANGED <<w, sink, style, wrote, widths, closeRet, got, rd, lastRead, peeked, late,
                   codeVars, encVars, cbVars>>

\* The values are read back in order, each in one or more readBits calls: a
\* call takes bits of the value being read only, the first call of a value
\* any number of them and the later ones a byte at a time.  Once every value
\* has been read the client may go on reading, with any width.
InOrder(n) ==
    IF rd.idx > Len(widths) THEN TRUE
    ELSE IF rd.off = 0 THEN n <= widths[rd.idx]
    ELSE n = Min(8, widths[rd.idx] - rd.off)

\* The client goes on calling until a call returns an error, and makes up
\* to MaxLate calls on a bitReader whose err is set.
MayCall ==
    IF r.err # "nil" THEN Len(late) < MaxLate ELSE lastRead = "nil"

ReadBits(n) ==
    /\ pc = "reading"
    /\ MayCall
    /\ InOrder(n)
    /\ \E res \in {readBits([r |-> r, src |-> src], n)} :
           /\ r' = res.r
           /\ src' = res.src
           /\ lastRead' = res.err
           /\ got' = IF res.err = "nil" THEN got \o ByteBits(res.val, n) ELSE got
           /\ late' = IF res.r.err # "nil" THEN Append(late, <<"readBits", res.err>>)
                      ELSE late
           /\ rd' = IF rd.idx > Len(widths) \/ r.err # "nil"
                    THEN rd
                    ELSE IF rd.off + n = widths[rd.idx]
                    THEN [idx |-> rd.idx + 1, off |-> 0,
                          ok |-> rd.ok /\ res.err = "nil"]
                    ELSE [idx |-> rd.idx, off |-> rd.off + n,
                          ok |-> rd.ok /\ res.err = "nil"]
    /\ peeked' = NoPeek
    /\ UNCHANGED <<pc, w, sink, style, wrote, widths, closeRet, budget, codeVars, encVars, cbVars>>

\* peek, once before the first readBits call of a value, as a decoder looks
\* ahead before it reads a code.
Peek ==
    /\ pc = "reading"
    /\ MayCall
    /\ peeked = NoPeek
    /\ rd.off = 0
    /\ peeked' = peek(r)
    /\ late' = IF r.err # "nil" THEN Append(late, <<"peek", peek(r).err>>) ELSE late
    /\ UNCHANGED <<pc, w, sink, r, src, style, wrote, widths, closeRet, budget, got, rd,
                   lastRead, codeVars, encVars, cbVars>>

NextBits ==
    \/ \E n \in Widths : WriteBits(n)
    \/ CloseWriter
    \/ \E n \in Budgets \cup {Len(wrote), 8 * Len(sink.data) + 8} : NewBitReader(n)
    \/ \E n \in ReadWidths : ReadBits(n)
    \/ Peek

SpecBits == InitBits /\ [][NextBits]_vars

----------------------------------------------------------------------------
(* Code: NewCode's bounds, Marshal, UnmarshalCode, assignValues. *)

maxCodeLen == 20
marshalVersion == 0

\* a | b on bytes.
RECURSIVE OrFrom(_, _, _)
OrFrom(a, b, k) ==
    IF k > 7 THEN 0
    ELSE (IF BitOf(a, k) = 1 \/ BitOf(b, k) = 1 THEN 2 ^ k ELSE 0) + OrFrom(a, b, k + 1)

ByteOr(a, b) == OrFrom(a, b, 0)

\* The magic byte: 0b11<<6 | marshalVersion.
Magic == ByteOr(192, marshalVersion)

\* rep with the last byte of a run carrying R instead of R - 1.
RECURSIVE repOffByOne(_, _, _, _)
repOffByOne(buf, R, len, bottom) ==
    LET shift == 8 - len
        max == 2 ^ len
    IN  IF R >= max
        THEN repOffByOne(Append(buf, ByteOr(((max - 1) * (2 ^ shift)) % 256, bottom)),
                         R - max, len, bottom)
        ELSE IF R > 0
        THEN Append(buf, ByteOr((R * (2 ^ shift)) % 256, bottom))
        ELSE buf

\* Marshal's rep closure: the bytes appended for R repeats with a repeat
\* field of len bits over the low bits bottom.
RECURSIVE rep(_, _, _, _)
rep(buf, R, len, bottom) ==
    LET shift == 8 - len
        max == 2 ^ len
    IN  IF R >= max
        THEN rep(Append(buf, ByteOr(((max - 1) * (2 ^ shift)) % 256, bottom)),
                 R - max, len, bottom)
        ELSE IF R > 0
        THEN Append(buf, ByteOr(((R - 1) * (2 ^ shift)) % 256, bottom))
        ELSE buf

\* The inner loop of Marshal, entered at j (0-based): it leaves j at the
\* first symbol from there on whose length is not L, or at len(c.codes).
runEnd(c, L, j) ==
    LET stops == {k \in j..(Len(c) - 1) : c[k + 1].len # L}
    IN  IF stops = {} THEN Len(c) ELSE CHOOSE k \in stops : \A m \in stops : k <= m

\* The outer loop of Marshal, from symbol i (0-based): [buf, panic].
RECURSIVE marshalFrom(_, _, _)
marshalFrom(c, i, buf) ==
    IF i >= Len(c) THEN [buf |-> buf, panic |-> FALSE]
    ELSE LET L == c[i + 1].len
             j == runEnd(c, L, i + 1)
             R == j - i
         IN  IF L = 0
             THEN marshalFrom(c, j, rep(buf, R, 7, 0))
             ELSE IF L >= 1 /\ L <= 16
             THEN marshalFrom(c, j, rep(buf, R, 2, ByteOr(((L - 1) * 4) % 256, 1)))
             ELSE IF L >= 17 /\ L <= 20
             THEN marshalFrom(c, j, rep(buf, R, 4, ByteOr(((L - 17) * 4) % 256, 3)))
             ELSE [buf |-> buf, panic |-> TRUE]

Marshal(c) == marshalFrom(c, 0, <<Magic>>)

\* R copies of bitcode{len: L}.
Repeat(L, R) == [k \in 1..R |-> [val |-> 0, len |-> L]]

\* byteRun with the repeat count of the 1-16 form read as 4 bits.
byteRunWide(b) ==
    IF b % 2 = 0
    THEN [L |-> 0, R |-> (b \div 2) + 1]
    ELSE IF b % 4 = 1
    THEN [L |-> ((b \div 4) % 16) + 1, R |-> (b \div 16) + 1]
    ELSE [L |-> ((b \div 4) % 4) + 17, R |-> (b \div 16) + 1]

\* The length and repeat count one byte of marshalled data stands for.
byteRun(b) ==
    IF b % 2 = 0
    THEN [L |-> 0, R |-> (b \div 2) + 1]
    ELSE IF b % 4 = 1
    THEN [L |-> ((b \div 4) % 16) + 1, R |-> (b \div 64) + 1]
    ELSE [L |-> ((b \div 4) % 4) + 17, R |-> (b \div 16) + 1]

\* The loop of UnmarshalCode over data[1:], from byte k (1-based).
RECURSIVE expand(_, _, _)
expand(data, k, c) ==
    IF k > Len(data) THEN c
    ELSE expand(data, k + 1, c \o Repeat(byteRun(data[k]).L, byteRun(data[k]).R))

\* counts after the first loop of assignValues and counts[0] = 0.
counts(c) ==
    [L \in 0..maxCodeLen |->
        IF L = 0 THEN 0 ELSE Cardinality({i \in 1..Len(c) : c[i].len = L})]

\* firstVals adding the count of the length itself, not of the one before.
RECURSIVE firstValsSameLen(_, _, _, _)
firstValsSameLen(cnt, len, val, nextVal) ==
    IF len > maxCodeLen THEN nextVal
    ELSE LET v == (val + cnt[len]) * 2
         IN  firstValsSameLen(cnt, len + 1, v, [nextVal EXCEPT ![len] = v])

\* nextVal after the second loop of assignValues, which has reached len.
\* Below 2^31 for the codes of this model, so the uint32 never wraps.
RECURSIVE firstVals(_, _, _, _)
firstVals(cnt, len, val, nextVal) ==
    IF len > maxCodeLen THEN nextVal
    ELSE LET v == (val + cnt[len - 1]) * 2
         IN  firstVals(cnt, len + 1, v, [nextVal EXCEPT ![len] = v])

\* The third loop of assignValues from symbol i (0-based), taken one run of
\* equal lengths at a time: the symbols of a run of a non-zero length L get
\* nextVal[L], nextVal[L] + 1, ... in symbol order, and nextVal[L] moves past
\* them; a run of zero lengths is skipped.
\* assignRun giving every symbol of the run the same value.
assignRunSame(c, i, j, nextVal) ==
    [k \in 1..Len(c) |->
        IF k > i /\ k <= j /\ c[k].len # 0
        THEN [val |-> nextVal[c[k].len], len |-> c[k].len]
        ELSE c[k]]

assignRun(c, i, j, nextVal) ==
    [k \in 1..Len(c) |->
        IF k > i /\ k <= j /\ c[k].len # 0
        THEN [val |-> nextVal[c[k].len] + (k - i - 1), len |-> c[k].len]
        ELSE c[k]]

RECURSIVE assignFrom(_, _, _)
assignFrom(c, i, nextVal) ==
    IF i >= Len(c) THEN c
    ELSE assignFrom(assignRun(c, i, runEnd(c, c[i + 1].len, i), nextVal),
                    runEnd(c, c[i + 1].len, i),
                    IF c[i + 1].len = 0 THEN nextVal
                    ELSE [nextVal EXCEPT ![c[i + 1].len] = @ + (runEnd(c, c[i + 1].len, i) - i)])

assignValues(c) ==
    assignFrom(c, 0, firstVals(counts(c), 1, 0, [L \in 0..maxCodeLen |-> 0]))

\* UnmarshalCode without the check of the first byte.
UnmarshalCodeAnyMagic(data) ==
    IF Len(data) = 0
    THEN [code |-> "nil", codes |-> << >>, err |-> "empty data"]
    ELSE [code |-> "Code", codes |-> assignValues(expand(data, 2, << >>)), err |-> "nil"]

\* UnmarshalCode without the call of assignValues.
UnmarshalCodeNoValues(data) ==
    IF Len(data) = 0
    THEN [code |-> "nil", codes |-> << >>, err |-> "empty data"]
    ELSE IF data[1] # Magic
    THEN [code |-> "nil", codes |-> << >>, err |-> "bad magic/version"]
    ELSE [code |-> "Code", codes |-> expand(data, 2, << >>), err |-> "nil"]

UnmarshalCode(data) ==
    IF Len(data) = 0
    THEN [code |-> "nil", codes |-> << >>, err |-> "empty data"]
    ELSE IF data[1] # Magic
    THEN [code |-> "nil", codes |-> << >>, err |-> "bad magic/version"]
    ELSE [code |-> "Code", codes |-> assignValues(expand(data, 2, << >>)), err |-> "nil"]

\* len(frequencies) of a table given as runs, from run k on.
RECURSIVE FreqLen(_, _)
FreqLen(t, k) == IF k > Len(t) THEN 0 ELSE t[k][2] + FreqLen(t, k + 1)

\* f < 0 for a Go int f.
Negative(f) == f[1] < 0

\* int32(f) for a Go int f: its low 32 bits, bit 31 being the sign.
int32(f) ==
    LET h == f[1] % Half
    IN  (IF h >= Half \div 2 THEN h - Half ELSE h) * Half + f[2]

\* NewCode rejecting a table of 2^maxCodeLen entries as well.
NewCodeStrict(t) ==
    IF FreqLen(t, 1) >= 2 ^ maxCodeLen
    THEN [code |-> "nil", err |-> "too many frequencies", freqs |-> << >>]
    ELSE IF \E k \in 1..Len(t) : Negative(t[k][1])
    THEN [code |-> "nil", err |-> "negative frequency", freqs |-> << >>]
    ELSE [code |-> "nil", err |-> "nil",
          freqs |-> [k \in 1..Len(t) |-> <<int32(t[k][1]), t[k][2]>>]]

\* NewCode up to the call of enc.generate: the error it returns with a nil
\* Code, or a nil error and the []int32 it hands to the generator when it
\* goes on to construct the Code.
NewCode(t) ==
    IF FreqLen(t, 1) > 2 ^ maxCodeLen
    THEN [code |-> "nil", err |-> "too many frequencies", freqs |-> << >>]
    ELSE IF \E k \in 1..Len(t) : Negative(t[k][1])
    THEN [code |-> "nil", err |-> "negative frequency", freqs |-> << >>]
    ELSE [code |-> "nil", err |-> "nil",
          freqs |-> [k \in 1..Len(t) |-> <<int32(t[k][1]), t[k][2]>>]]

----------------------------------------------------------------------------
(* The Code program: a client holds a Code with given lengths and no       *)
(* values yet (as the tests build one), may have assignValues assign the   *)
(* values, marshals it and unmarshals the bytes; or it hands UnmarshalCode *)
(* bytes of its own.                                                       *)

\* The sequences over S of length 0..n.
RECURSIVE SeqsUpTo(_, _)
SeqsUpTo(S, n) ==
    IF n = 0 THEN {<< >>}
    ELSE LET shorter == SeqsUpTo(S, n - 1)
         IN  shorter \cup {Append(q, x) : q \in {t \in shorter : Len(t) = n - 1}, x \in S}

\* The lengths a sequence of runs stands for.
RECURSIVE Unroll(_)
Unroll(runs) ==
    IF runs = << >> THEN << >>
    ELSE [k \in 1..Head(runs)[2] |-> Head(runs)[1]] \o Unroll(Tail(runs))

LengthArrays ==
    SeqsUpTo(SmallLens, MaxSyms) \cup {Unroll(q) : q \in SeqsUpTo(RunChoices, MaxRuns)}

WithLengths(lens) == [i \in 1..Len(lens) |-> [val |-> 0, len |-> lens[i]]]

Lengths(c) == [i \in 1..Len(c) |-> c[i].len]
Values(c) == [i \in 1..Len(c) |-> c[i].val]

\* The bit-level objects are not in use.
BitsIdle ==
    /\ w = newBitWriter
    /\ sink = [data |-> << >>, calls |-> 0, failAt |-> 0]
    /\ r = NoReader
    /\ src = [data |-> << >>, pos |-> 0]
    /\ style = "ones"
    /\ wrote = << >>
    /\ widths = << >>
    /\ closeRet = NoErr
    /\ budget = 0
    /\ got = << >>
    /\ rd = [idx |-> 1, off |-> 0, ok |-> TRUE]
    /\ lastRead = "nil"
    /\ peeked = NoPeek
    /\ late = << >>

InitCode ==
    /\ BitsIdle
    /\ EncIdle
    /\ CBIdle
    /\ ucode = [code |-> "nil", codes |-> << >>, err |-> "nil"]
    /\ ncode = [code |-> "nil", err |-> "nil"]
    /\ freqs32 = << >>
    /\ \/ /\ pc = "code"
          /\ \E lens \in LengthArrays : codes = WithLengths(lens)
          /\ marsh = << >>
          /\ freqs = << >>
       \/ /\ pc = "raw"
          /\ codes = << >>
          /\ marsh \in SeqsUpTo(RawBytes, MaxRaw)
          /\ freqs = << >>
       \/ /\ pc = "freqs"
          /\ codes = << >>
          /\ marsh = << >>
          /\ freqs \in SeqsUpTo(FreqRuns, MaxFreqRuns)

AssignValues ==
    /\ pc = "code"
    /\ codes' = assignValues(codes)
    /\ pc' = "valued"
    /\ UNCHANGED <<bitVars, marsh, ucode, freqs, ncode, freqs32, encVars, cbVars>>

MarshalCode ==
    /\ pc \in {"code", "valued"}
    /\ \E m \in {Marshal(codes)} :
           /\ marsh' = m.buf
           /\ pc' = IF m.panic THEN "panic" ELSE "marshalled"
    /\ UNCHANGED <<bitVars, codes, ucode, freqs, ncode, freqs32, encVars, cbVars>>

Unmarshal ==
    /\ pc \in {"marshalled", "raw"}
    /\ ucode' = UnmarshalCode(marsh)
    /\ pc' = IF pc = "raw" THEN "decoded" ELSE "unmarshalled"
    /\ UNCHANGED <<bitVars, codes, marsh, freqs, ncode, freqs32, encVars, cbVars>>

\* NewCode(frequencies), up to the call of the code generator.
NewCodeChecks ==
    /\ pc = "freqs"
    /\ \E res \in {NewCode(freqs)} :
           /\ ncode' = [code |-> res.code, err |-> res.err]
           /\ freqs32' = res.freqs
           /\ pc' = IF res.err # "nil" THEN "rejected" ELSE "generating"
    /\ UNCHANGED <<bitVars, codes, marsh, ucode, freqs, encVars, cbVars>>

NextCode ==
    \/ NewCodeChecks
    \/ AssignValues
    \/ MarshalCode
    \/ Unmarshal

SpecCode == InitCode /\ [][NextCode]_vars

----------------------------------------------------------------------------
(* Encoder and Decoder.  The Encoder has no split function, so the bytes    *)
(* handed to Write are the symbols.  The Encoder operators take and return  *)
(* e = [w |-> ..., sink |-> ..., panic |-> ...]; panic is set once a call   *)
(* has panicked.                                                            *)

\* The uint32 with value v (v is below 2^31).
uint32(v) == [i \in 0..31 |-> IF i <= 30 THEN BitOf(v, i) ELSE 0]

\* Code.code: the bitcode of symbol sym, the zero bitcode if there is none.
code(c, sym) == IF sym >= Len(c) THEN [val |-> 0, len |-> 0] ELSE c[sym + 1]

WriteSymbol(c, e, sym) ==
    IF e.panic THEN e
    ELSE IF code(c, sym).len = 0
    THEN [e EXCEPT !.panic = TRUE]
    ELSE [panic |-> FALSE] @@
         writeBits([w |-> e.w, sink |-> e.sink],
                   uint32(code(c, sym).val), code(c, sym).len)

\* The loop of WriteBytes from byte i (1-based).
RECURSIVE WriteBytesFrom(_, _, _, _)
WriteBytesFrom(c, e, bs, i) ==
    IF i > Len(bs) \/ e.panic THEN e
    ELSE WriteBytesFrom(c, WriteSymbol(c, e, bs[i]), bs, i + 1)

\* WriteBytes flushing the bitWriter at the end of every call.
WriteBytesFlushed(c, e, bs) ==
    [panic |-> WriteBytesFrom(c, e, bs, 1).panic] @@
    flush([w |-> WriteBytesFrom(c, e, bs, 1).w, sink |-> WriteBytesFrom(c, e, bs, 1).sink])

WriteBytes(c, e, bs) == WriteBytesFrom(c, e, bs, 1)

\* table.add at slot val + i for every i below 2^(8 - len); an index above
\* 255 and a length above 8 panic.
ZeroAction == [sym |-> 0, len |-> 0, table |-> "nil"]

add(t, val, len, sym) ==
    IF t.panic # "none" THEN t
    ELSE IF len > 8 THEN [t EXCEPT !.panic = "unimp"]
    ELSE IF val + (2 ^ (8 - len)) - 1 > 255
    THEN [t EXCEPT !.panic = "index out of range"]
    ELSE [t EXCEPT !.slots =
             [k \in 0..255 |->
                 IF k >= val /\ k < val + (2 ^ (8 - len))
                 THEN [sym |-> sym, len |-> len, table |-> "nil"]
                 ELSE t.slots[k]]]

\* The loop of buildTable from symbol s.
RECURSIVE buildFrom(_, _, _)
buildFrom(c, s, t) ==
    IF s >= Len(c) THEN t
    ELSE buildFrom(c, s + 1, add(t, c[s + 1].val, c[s + 1].len, s))

buildTable(c) == buildFrom(c, 0, [slots |-> [k \in 0..255 |-> ZeroAction], panic |-> "none"])

\* Decoder.SetEncoded, Decoder.DecodeSymbols and Decoder.Read have empty
\* bodies: the first keeps nothing, the others return (0, nil) and leave
\* the caller's buffer as it was.
DecodeSymbols(t, buf) == [via |-> "DecodeSymbols", syms |-> << >>, n |-> 0, err |-> "nil"]
Read(t, buf) == [via |-> "Read", syms |-> << >>, n |-> 0, err |-> "nil"]

----------------------------------------------------------------------------
(* The Encoder program: a client builds an Encoder on a Code and a sink,    *)
(* makes up to MaxOps calls of Write and Close on it, then builds a Decoder *)
(* from the same Code, hands it the bytes the sink received and reads the   *)
(* symbols back.                                                            *)

Identity8 == [s \in 1..4 |-> [val |-> s - 1, len |-> 8]]

EncCodes == {Identity8} \cup {assignValues(WithLengths(l)) : l \in EncLengths}

InitEnc ==
    /\ pc = "enc"
    /\ w = newBitWriter
    /\ \E f \in FailAts : sink = [data |-> << >>, calls |-> 0, failAt |-> f]
    /\ r = NoReader
    /\ src = [data |-> << >>, pos |-> 0]
    /\ style = "ones"
    /\ wrote = << >>
    /\ widths = << >>
    /\ closeRet = NoErr
    /\ budget = 0
    /\ got = << >>
    /\ rd = [idx |-> 1, off |-> 0, ok |-> TRUE]
    /\ lastRead = "nil"
    /\ peeked = NoPeek
    /\ late = << >>
    /\ codes \in EncCodes
    /\ marsh = << >>
    /\ ucode = [code |-> "nil", codes |-> << >>, err |-> "nil"]
    /\ ncode = [code |-> "nil", err |-> "nil"]
    /\ freqs32 = << >>
    /\ freqs = << >>
    /\ EncIdle
    /\ CBIdle

idleVars ==
    <<r, src, style, wrote, widths, budget, got, rd, lastRead, peeked, late, marsh, ucode,
      freqs, ncode, freqs32, cbVars>>

\* Encoder.Write(data).
EncWrite(data) ==
    /\ pc = "enc"
    /\ Len(hist) < MaxOps
    /\ \E e \in {WriteBytes(codes, [w |-> w, sink |-> sink, panic |-> FALSE], data)} :
           /\ w' = e.w
           /\ sink' = e.sink
           /\ pc' = IF e.panic THEN "enc-panic" ELSE "enc"
           /\ wret' = IF e.panic THEN wret ELSE [n |-> Len(data), err |-> NoErr]
    /\ hist' = Append(hist, <<"Write", data>>)
    /\ UNCHANGED <<idleVars, closeRet, codes, table, decoded>>

\* Encoder.Close().
EncClose ==
    /\ pc = "enc"
    /\ Len(hist) < MaxOps
    /\ \E s \in {Close([w |-> w, sink |-> sink])} :
           w' = s.w /\ sink' = s.sink /\ closeRet' = s.w.err
    /\ hist' = Append(hist, <<"Close">>)
    /\ UNCHANGED <<idleVars, pc, codes, wret, table, decoded>>

\* Code.NewDecoder(), once the Encoder has been closed.
NewDecoder ==
    /\ pc = "enc"
    /\ hist # << >>
    /\ hist[Len(hist)] = <<"Close">>
    /\ \E t \in {buildTable(codes)} :
           /\ table' = t.slots
           /\ pc' = IF t.panic # "none" THEN "dec-panic" ELSE "dec"
    /\ UNCHANGED <<idleVars, w, sink, closeRet, codes, hist, wret, decoded>>

\* Decoder.SetEncoded(the bytes the sink received).
SetEncoded ==
    /\ pc = "dec"
    /\ pc' = "dec-set"
    /\ UNCHANGED <<bitVars, codeVars, cbVars, hist, wret, table, decoded>>

\* Decoder.DecodeSymbols(buf) or Decoder.Read(buf), buf with room for every
\* symbol that was written.
DecoderRead ==
    /\ pc = "dec-set"
    /\ \/ decoded' = DecodeSymbols(table, << >>)
       \/ decoded' = Read(table, << >>)
    /\ pc' = "dec-done"
    /\ UNCHANGED <<bitVars, codeVars, cbVars, hist, wret, table>>

NextEnc ==
    \/ \E data \in DataChoices : EncWrite(data)
    \/ EncClose
    \/ NewDecoder
    \/ SetEncoded
    \/ DecoderRead

SpecEnc == InitEnc /\ [][NextEnc]_vars

----------------------------------------------------------------------------
(* CodeBuilder.  freqs is the slice cb.freqs: the count of symbol s is at   *)
(* s + 1.                                                                   *)

\* A SplitFunc: one symbol of every two bytes (the second byte weighs 8) and
\* one of a last odd byte.
SplitPairs(data) ==
    [k \in 1..((Len(data) + 1) \div 2) |->
        IF 2 * k <= Len(data) THEN data[2 * k - 1] + 8 * data[2 * k]
        ELSE data[2 * k - 1]]

\* growFreqs appending n + 1 zeros whatever the length is.
growFreqsWide(f, n) ==
    IF Len(f) <= n THEN f \o [k \in 1..(n + 1) |-> 0] ELSE f

\* growFreqs: freqs grown with zeros so that freqs[n] exists.
growFreqs(f, n) ==
    IF Len(f) <= n THEN f \o [k \in 1..(n - Len(f) + 1) |-> 0] ELSE f

\* The loops of CodeBuilder.Write from symbol i (1-based) of syms.
RECURSIVE countFrom(_, _, _)
countFrom(f, syms, i) ==
    IF i > Len(syms) THEN f
    ELSE countFrom([growFreqs(f, syms[i]) EXCEPT ![syms[i] + 1] = @ + 1], syms, i + 1)

\* CodeBuilder.Write: the builder after it, and what it returns.
cbWrite(b, data) ==
    [cb |-> [b EXCEPT !.freqs = countFrom(@, IF b.split = "nil" THEN data
                                              ELSE SplitPairs(data), 1)],
     n |-> Len(data),
     err |-> NoErr]

----------------------------------------------------------------------------
(* The CodeBuilder program: a client makes a CodeBuilder, with or without a *)
(* split function, writes data to it up to MaxCBWrites times and asks for   *)
(* the Code.                                                                *)

InitCB ==
    /\ pc = "cb"
    /\ BitsIdle
    /\ CodeIdle
    /\ EncIdle
    /\ \E sp \in {"nil", "pairs"} : cb = [split |-> sp, freqs |-> << >>]
    /\ cbhist = << >>
    /\ cbret = [n |-> 0, err |-> NoErr]

\* CodeBuilder.Write(data).
CBWrite(data) ==
    /\ pc = "cb"
    /\ Len(cbhist) < MaxCBWrites
    /\ \E res \in {cbWrite(cb, data)} :
           /\ cb' = res.cb
           /\ cbret' = [n |-> res.n, err |-> res.err]
    /\ cbhist' = Append(cbhist, data)
    /\ UNCHANGED <<pc, bitVars, codeVars, encVars>>

\* CodeBuilder.Code(): NewCode(cb.freqs), up to the call of the generator.
CBCode ==
    /\ pc = "cb"
    /\ \E res \in {NewCode([s \in 1..Len(cb.freqs) |-> <<GoInt(cb.freqs[s]), 1>>])} :
           /\ ncode' = [code |-> res.code, err |-> res.err]
           /\ freqs32' = res.freqs
    /\ pc' = "cb-code"
    /\ UNCHANGED <<bitVars, codes, marsh, ucode, freqs, encVars, cbVars>>

NextCB ==
    \/ \E data \in CBData : CBWrite(data)
    \/ CBCode

SpecCB == InitCB /\ [][NextCB]_vars

----------------------------------------------------------------------------
(* Properties of the bit-level program. *)

\* Bit k of the byte stream the sink received: bit k mod 8 of byte k div 8.
StreamBit(data, k) == BitOf(data[(k \div 8) + 1], k % 8)

\* C1: after writeBits calls with widths in 1..32 and values that fit, and
\* Close, on a sink that never fails, the sink holds exactly
\* ceil(sum of the widths / 8) bytes; stream bit k is bit k of the
\* concatenation of the values (earlier calls lower, each value's bit 0
\* first) and the unused high-order bits of the last byte are 0.
C1_WrittenStream ==
    pc # "writing" =>
        /\ Len(sink.data) = (Len(wrote) + 7) \div 8
        /\ \A k \in 0..(8 * Len(sink.data) - 1) :
               StreamBit(sink.data, k) = IF k < Len(wrote) THEN wrote[k + 1] ELSE 0

\* A client whose values alternate in kind has written 1, 32 and 8 bits: the
\* second call overflowed the 32-bit buffer and the last byte is partial.
C1_Witness ==
    /\ pc = "closed"
    /\ style = "mixed"
    /\ widths = <<1, 32, 8>>
    /\ Len(sink.data) = 6

\* C2: the values written, read back in order through a bitReader whose
\* budget is the number of bits written, each value in readBits calls of 1..8
\* bits, come back bit for bit, and no such read returns an error.
C2_RoundTrip ==
    (pc = "reading" /\ budget = Len(wrote)) =>
        /\ rd.ok
        /\ \A k \in 1..Min(Len(got), Len(wrote)) : got[k] = wrote[k]

\* C3: the successful readBits calls of a bitReader return no more bits in
\* total than the budget it was constructed with.
C3_BudgetRespected ==
    pc = "reading" => Len(got) <= budget

\* The bits of the stream that are within the budget and not yet returned.
Unread == Min(budget, 8 * Len(src.data)) - Len(got)

\* C14: peek leaves the bitReader as it was (Peek changes no field of it);
\* the bits it returns are the next unread bits of the stream, lowest first;
\* and it returns EOF only when no bit of the budget remains to be read.
C14_Peek ==
    (pc = "reading" /\ peeked # NoPeek) =>
        /\ peeked.err = "EOF" => Unread <= 0
        /\ peeked.err = "nil" =>
               \A k \in 0..(Min(Min(8, r.nbits), Len(wrote) - Len(got)) - 1) :
                   BitOf(peeked.val, k) = wrote[Len(got) + k + 1]

\* C18: on a source that holds no more bits than the budget (the budget is
\* not 0), no more bits are returned than the source holds, a failed
\* readBits has set the reader's err to ErrUnexpectedEOF, and from then on
\* every readBits call returns ErrUnexpectedEOF and every peek an error.
C18_SourceEnds ==
    (pc = "reading" /\ budget > 0 /\ 8 * Len(src.data) <= budget) =>
        /\ Len(got) <= 8 * Len(src.data)
        /\ lastRead # "nil" => (lastRead = "ErrUnexpectedEOF" /\ r.err = "ErrUnexpectedEOF")
        /\ \A k \in 1..Len(late) :
               /\ late[k][2] # "nil"
               /\ late[k][1] = "readBits" => late[k][2] = "ErrUnexpectedEOF"

\* All 48 bits of a 6-byte source opened with budget 48 were read; the next
\* readBits returned ErrUnexpectedEOF and so did a peek after it.
C18_Witness ==
    /\ pc = "reading"
    /\ budget = 48
    /\ Len(src.data) = 6
    /\ Len(got) = 48
    /\ late = << <<"readBits", "ErrUnexpectedEOF">>, <<"peek", "ErrUnexpectedEOF">> >>

\* C19: between calls on a bitReader whose err is not set, nbits is at least
\* 8 unless fewer than 8 unread bits remain, and nbits is at most the number
\* of bits taken from the source and not yet returned.
C19_NbitsInvariant ==
    (pc = "reading" /\ r.err = "nil") =>
        /\ r.nbits >= 8 \/ Unread < 8
        /\ r.nbits <= 8 * src.pos - Len(got)

----------------------------------------------------------------------------
(* Properties of the Code program. *)

\* The Kraft sum of a code, scaled by 2^maxCodeLen, over the lengths from L.
RECURSIVE KraftFrom(_, _)
KraftFrom(c, L) ==
    IF L > maxCodeLen THEN 0
    ELSE Cardinality({i \in 1..Len(c) : c[i].len = L}) * (2 ^ (maxCodeLen - L))
             + KraftFrom(c, L + 1)

\* The sum of 2^(-length) over the non-zero-length symbols is at most 1.
Kraft(c) == KraftFrom(c, 1) <= 2 ^ maxCodeLen

\* Every value fits in its length bits.
Fits(c) == \A i \in 1..Len(c) : c[i].len > 0 => c[i].val < 2 ^ c[i].len

\* The code a, read most significant bit first, is a prefix of the code b.
IsPrefix(a, b) == a.len <= b.len /\ b.val \div (2 ^ (b.len - a.len)) = a.val

PrefixFreeOn(c, used) ==
    \A i \in used, j \in used : i # j => ~IsPrefix(c[i], c[j])

\* No code of a non-zero-length symbol is a prefix of another's.
PrefixFree(c) == PrefixFreeOn(c, {i \in 1..Len(c) : c[i].len > 0})

\* The format of section 4.3: repeats per byte and byte layout for length L.
Cap(L) == IF L = 0 THEN 128 ELSE IF L <= 16 THEN 4 ELSE 16

Layout(L, field) ==
    IF L = 0 THEN 2 * field
    ELSE IF L <= 16 THEN 64 * field + 4 * (L - 1) + 1
    ELSE 16 * field + 4 * (L - 17) + 3

\* The bytes for a maximal run of R symbols of length L.
RunBytes(L, R) ==
    [k \in 1..(R \div Cap(L)) |-> Layout(L, Cap(L) - 1)]
        \o (IF R % Cap(L) > 0 THEN <<Layout(L, (R % Cap(L)) - 1)>> ELSE << >>)

\* The symbols (1-based) at which a maximal run of equal lengths starts.
RunStarts(c) == {i \in 1..Len(c) : IF i = 1 THEN TRUE ELSE c[i].len # c[i - 1].len}

\* The bytes for the maximal runs that start at the symbols of starts at or
\* after i, in symbol order; n is the number of symbols.
RECURSIVE RunsBytes(_, _, _, _)
RunsBytes(c, starts, i, n) ==
    IF i > n THEN << >>
    ELSE LET later == {j \in starts : j > i}
             next == IF later = {} THEN n + 1
                     ELSE CHOOSE j \in later : \A k \in later : j <= k
         IN  RunBytes(c[i].len, next - i) \o RunsBytes(c, starts, next, n)

\* C5: for lengths in 0..20, UnmarshalCode(Marshal(code)) succeeds and
\* returns a Code with the same number of symbols and the same length for
\* every symbol.
C5_LengthsRoundTrip ==
    pc = "unmarshalled" =>
        /\ ucode.err = "nil"
        /\ Lengths(ucode.codes) = Lengths(codes)

\* 130 symbols of length 0 and 17 of length 17 went through Marshal and
\* UnmarshalCode: both runs take more than one byte.
C5_Witness ==
    /\ pc = "unmarshalled"
    /\ Lengths(codes) = Unroll(<< <<0, 130>>, <<17, 17>> >>)

C7_ValidPrefixCode ==
    (pc \in {"unmarshalled", "decoded"} /\ ucode.err = "nil") =>
        /\ Kraft(ucode.codes)
        /\ Fits(ucode.codes)
        /\ PrefixFree(ucode.codes)

\* C8: for lengths that satisfy the Kraft inequality, assignValues gives
\* every non-zero-length symbol a value below 2^length and no code is a
\* prefix of another; lengths [2,1,3,3] get the values [2,0,6,7].
C8_AssignedValues ==
    pc = "valued" =>
        /\ Kraft(codes) => (Fits(codes) /\ PrefixFree(codes))
        /\ Lengths(codes) = <<2, 1, 3, 3>> => Values(codes) = <<2, 0, 6, 7>>

\* assignValues has run on the lengths of RFC 1951's example.
C8_Witness ==
    /\ pc = "valued"
    /\ Lengths(codes) = <<2, 1, 3, 3>>

\* The number of symbols the bytes of data from byte k on stand for.
RECURSIVE SymbolCount(_, _)
SymbolCount(data, k) ==
    IF k > Len(data) THEN 0
    ELSE (IF data[k] % 2 = 0 THEN (data[k] \div 2) + 1
          ELSE IF data[k] % 4 = 1 THEN (data[k] \div 64) + 1
          ELSE (data[k] \div 16) + 1) + SymbolCount(data, k + 1)

\* C11: UnmarshalCode returns an error and a nil Code exactly when the data
\* is empty or its first byte is not 0xC0; for any other bytes it returns a
\* nil error and a Code, with the symbols the bytes after the first stand for.
C11_UnmarshalErrors ==
    pc \in {"unmarshalled", "decoded"} =>
        /\ (ucode.err # "nil") <=> (marsh = << >> \/ marsh[1] # 192)
        /\ (ucode.err # "nil") <=> (ucode.code = "nil")
        /\ ucode.err = "nil" => Len(ucode.codes) = SymbolCount(marsh, 2)

\* Bytes with a first byte other than 0xC0, and well-formed after it, were
\* handed to UnmarshalCode.
C11_Witness ==
    /\ pc = "decoded"
    /\ marsh = <<65, 5, 255>>
    /\ ucode.err = "bad magic/version"

C17_Canonical ==
    (pc = "unmarshalled" /\ codes = assignValues(codes)) =>
        /\ ucode.err = "nil"
        /\ ucode.codes = codes
        /\ Marshal(ucode.codes).buf = marsh

\* The code of RFC 1951's example, with its values, went through Marshal and
\* UnmarshalCode.
C17_Witness ==
    /\ pc = "unmarshalled"
    /\ Lengths(codes) = <<2, 1, 3, 3>>
    /\ Values(codes) = <<2, 0, 6, 7>>

\* next[L] of RFC 1951, section 3.2.2: the sum over the lengths k in 1..L-1 of
\* count[k] * 2^(L-k).
RECURSIVE NextOf(_, _, _)
NextOf(c, L, k) ==
    IF k >= L THEN 0
    ELSE Cardinality({i \in 1..Len(c) : c[i].len = k}) * (2 ^ (L - k)) + NextOf(c, L, k + 1)

\* C20: after assignValues a symbol of length 0 has value 0 and the symbols
\* of a length L > 0 have, in symbol order, the consecutive values from
\* next[L] on, where next[L] = (next[L-1] + count[L-1]) * 2 and count[0]
\* counts as 0.
C20_ConsecutiveValues ==
    pc = "valued" =>
        \A i \in 1..Len(codes) :
            /\ codes[i].len = 0 => codes[i].val = 0
            /\ codes[i].len > 0 =>
                   IF \E j \in 1..(i - 1) : codes[j].len = codes[i].len
                   THEN \E j \in 1..(i - 1) :
                            /\ codes[j].len = codes[i].len
                            /\ \A m \in (j + 1)..(i - 1) : codes[m].len # codes[i].len
                            /\ codes[i].val = codes[j].val + 1
                   ELSE codes[i].val = NextOf(codes, codes[i].len, 1)

\* assignValues has run on lengths with unused symbols between the symbols
\* of one length.
C20_Witness ==
    /\ pc = "valued"
    /\ Lengths(codes) = <<3, 0, 3, 1>>
    /\ Values(codes) = <<4, 0, 5, 0>>

----------------------------------------------------------------------------
(* Properties of the Encoder program. *)

\* The symbols handed to the Write calls from call k on, in order.
RECURSIVE Written(_, _)
Written(h, k) ==
    IF k > Len(h) THEN << >>
    ELSE (IF h[k][1] = "Write" THEN h[k][2] ELSE << >>) \o Written(h, k + 1)

\* Close was called once, after every Write.
ClosedOnce(h) ==
    \A k \in 1..Len(h) : (h[k] = <<"Close">>) <=> (k = Len(h))

\* Some byte of data has no code: it is above the largest symbol or its
\* code has length 0.
NoCode(c, data) == \E i \in 1..Len(data) : code(c, data[i]).len = 0

C9_NoCodeReported ==
    \A k \in 1..Len(hist) :
        (hist[k][1] = "Write" /\ NoCode(codes, hist[k][2])) =>
            /\ pc # "enc-panic"
            /\ wret.err = <<"NoCodeForSymbol">>

\* C10: the sink's Write is never called again after the call that failed,
\* the stored error is the error of that call, a Close after it returns that
\* error, and every Write that returns returns (len(data), nil).
C10_ErrorLatched ==
    /\ sink.failAt > 0 => sink.calls <= sink.failAt
    /\ w.err # NoErr => w.err = <<sink.failAt>>
    /\ (sink.failAt > 0 /\ sink.calls >= sink.failAt) => w.err = <<sink.failAt>>
    /\ (hist # << >> /\ hist[Len(hist)] = <<"Close">>) => closeRet = w.err
    /\ (hist # << >> /\ hist[Len(hist)][1] = "Write" /\ pc # "enc-panic") =>
           wret = [n |-> Len(hist[Len(hist)][2]), err |-> NoErr]

\* On the code of TestEncoder and a sink whose first Write fails, the second
\* Encoder.Write overflowed the 32-bit buffer, the sink failed, and Close
\* was called after that.
C10_Witness ==
    /\ pc = "enc"
    /\ codes = Identity8
    /\ sink.failAt = 1
    /\ hist = << <<"Write", <<1, 3, 2, 0>>>>, <<"Write", <<1, 3>>>>, <<"Close">> >>
    /\ sink.calls = 1
    /\ closeRet = <<1>>
    /\ wret = [n |-> 2, err |-> NoErr]

\* NewDecoder has returned a Decoder.
TableBuilt == pc \in {"dec", "dec-set", "dec-done"}

\* The slots whose high len bits are val (len in 1..8).
SlotsOf(val, len) == {k \in 0..255 : k \div (2 ^ (8 - len)) = val}

\* C12: after buildTable over a prefix code, the slots that hold the action
\* {symbol s, length L} of a symbol with 1 <= L <= 8 are exactly the
\* 2^(8-L) slots whose high L bits are the code's value (so the slots of
\* two symbols do not overlap).
C12_TableSlots ==
    (TableBuilt /\ Kraft(codes) /\ PrefixFree(codes)) =>
        \A s \in 1..Len(codes) :
            (codes[s].len >= 1 /\ codes[s].len <= 8) =>
                {k \in 0..255 : table[k] = [sym |-> s - 1, len |-> codes[s].len,
                                            table |-> "nil"]}
                    = SlotsOf(codes[s].val, codes[s].len)

\* C13: NewDecoder succeeds whatever the lengths in 0..20 are, and for a
\* symbol longer than 8 bits the slot selected by the first 8 bits of its
\* code is a continuation: no symbol, length 8 and a sub-table.
C13_LongCodes ==
    /\ pc # "dec-panic"
    /\ TableBuilt =>
           \A s \in 1..Len(codes) :
               codes[s].len > 8 =>
                   LET a == table[codes[s].val \div (2 ^ (codes[s].len - 8))]
                   IN  a.sym = 0 /\ a.len = 8 /\ a.table # "nil"

\* The bytes a sink that never fails holds after one Write of data and Close.
OneWrite(c, data) ==
    Close([w |-> WriteBytes(c, [w |-> newBitWriter,
                                sink |-> [data |-> << >>, calls |-> 0, failAt |-> 0],
                                panic |-> FALSE], data).w,
           sink |-> WriteBytes(c, [w |-> newBitWriter,
                                   sink |-> [data |-> << >>, calls |-> 0, failAt |-> 0],
                                   panic |-> FALSE], data).sink]).sink.data

\* C15: after Write calls and then Close on a sink that never fails, the
\* sink holds the bytes that one Write of the concatenated data and Close
\* give; on the code with length 8 and value s for every symbol s, they are
\* the bytes written.
C15_SplitIndependent ==
    (pc \in {"enc", "dec", "dec-set", "dec-done"} /\ sink.failAt = 0 /\ ClosedOnce(hist)) =>
        /\ sink.data = OneWrite(codes, Written(hist, 1))
        /\ codes = Identity8 => sink.data = Written(hist, 1)

\* TestEncoder: Write(data[:2]), Write(data[2:]) and Close of [1,3,2,0] on
\* the 8-bit code.
C15_Witness ==
    /\ pc = "enc"
    /\ codes = Identity8
    /\ sink.failAt = 0
    /\ hist = << <<"Write", <<1, 3>>>>, <<"Write", <<2, 0>>>>, <<"Close">> >>
    /\ sink.data = <<1, 3, 2, 0>>

\* f < g for Go ints f and g.
Less(f, g) == f[1] < g[1] \/ (f[1] = g[1] /\ f[2] < g[2])

\* C24: every frequency of a table that passes NewCode's validation reaches
\* the generator with its value unchanged: a positive frequency stays
\* positive and two frequencies keep their order.
C24_FrequenciesUnchanged ==
    pc = "generating" =>
        /\ Len(freqs32) = Len(freqs)
        /\ \A k \in 1..Len(freqs) :
               /\ freqs32[k][2] = freqs[k][2]
               /\ Less(GoInt(0), freqs[k][1]) => freqs32[k][1] > 0
               /\ GoInt(freqs32[k][1]) = freqs[k][1]
        /\ \A k, j \in 1..Len(freqs) :
               Less(freqs[k][1], freqs[j][1]) <=> freqs32[k][1] < freqs32[j][1]

\* The bits WriteSymbol hands to the stream for sym, first bit first: what a
\* new bitWriter holds after it.
StreamOf(c, sym) ==
    LET e == WriteSymbol(c, [panic |-> FALSE, w |-> newBitWriter,
                             sink |-> [data |-> << >>, calls |-> 0, failAt |-> 0]], sym)
    IN  BitSeq(e.w.bits, e.w.nbits)

\* The sequence a is a prefix of the sequence b.
SeqPrefix(a, b) == Len(a) <= Len(b) /\ \A k \in 1..Len(a) : a[k] = b[k]

\* C22: for a Code with values from assignValues over lengths that satisfy
\* the Kraft inequality, the bits that the Encoder put on the stream for a
\* symbol (one Write of one symbol, then Close, on a sink that never fails)
\* are not a prefix, in stream order, of the bits emitted for another symbol
\* of non-zero length.
C22_StreamPrefixFree ==
    (/\ pc = "enc"
     /\ sink.failAt = 0
     /\ ClosedOnce(hist)
     /\ Len(Written(hist, 1)) = 1
     /\ Kraft(codes)) =>
        \A t \in 0..(Len(codes) - 1) :
            (t # Written(hist, 1)[1] /\ code(codes, t).len > 0) =>
                ~SeqPrefix([k \in 1..code(codes, Written(hist, 1)[1]).len |->
                               StreamBit(sink.data, k - 1)],
                           StreamOf(codes, t))

\* The slots table.add writes for a code of length at most 8.
AddRange(c) == {k \in 0..255 : k >= c.val /\ k < c.val + (2 ^ (8 - c.len))}

\* C23: after buildTable over a Code with at least one symbol of non-zero
\* length, every slot that was written holds an action of length 1 to 8 or a
\* continuation, and a slot that a non-zero-length symbol wrote, and no later
\* non-zero-length symbol wrote, still holds that symbol's action (no
\* zero-length symbol overwrote it).
C23_ZeroLengthNoSlot ==
    (TableBuilt /\ \E s \in 1..Len(codes) : codes[s].len > 0) =>
        /\ \A k \in 0..255 :
               table[k] # ZeroAction =>
                   (table[k].table # "nil" \/ table[k].len \in 1..8)
        /\ \A s \in 1..Len(codes) : \A k \in 0..255 :
               (/\ codes[s].len \in 1..8
                /\ k \in AddRange(codes[s])
                /\ \A u \in (s + 1)..Len(codes) :
                       codes[u].len > 0 => k \notin AddRange(codes[u])) =>
                   table[k] = [sym |-> s - 1, len |-> codes[s].len, table |-> "nil"]

----------------------------------------------------------------------------
(* Properties of the CodeBuilder program. *)

\* The sequences of h from the k-th on, each through f, concatenated.
RECURSIVE Concat(_, _, _)
Concat(h, k, split) ==
    IF k > Len(h) THEN << >>
    ELSE (IF split = "nil" THEN h[k] ELSE SplitPairs(h[k])) \o Concat(h, k + 1, split)

\* The symbols the CodeBuilder has seen.
Seen == Concat(cbhist, 1, cb.split)

\* C21: after CodeBuilder.Write calls, freqs[s] is the number of times s
\* occurs among the symbols seen (the bytes written, or what the split
\* function made of each Write's data), len(freqs) is 0 if none was seen and
\* the largest one plus 1 otherwise, the last Write returned (len(data), nil),
\* and without a split function freqs is what one Write of all the data gives.
C21_Frequencies ==
    pc \in {"cb", "cb-code"} =>
        /\ \A s \in 0..(Len(cb.freqs) - 1) :
               cb.freqs[s + 1] = Cardinality({i \in 1..Len(Seen) : Seen[i] = s})
        /\ \A i \in 1..Len(Seen) : Seen[i] < Len(cb.freqs)
        /\ Seen = << >> => Len(cb.freqs) = 0
        /\ Seen # << >> => \E i \in 1..Len(Seen) : Seen[i] + 1 = Len(cb.freqs)
        /\ cbhist # << >> => cbret = [n |-> Len(cbhist[Len(cbhist)]), err |-> NoErr]
        /\ cb.split = "nil" =>
               cb.freqs = cbWrite([split |-> "nil", freqs |-> << >>], Seen).cb.freqs

\* The input of TestEncoder was written in two calls, without a split
\* function, and an empty slice after it.
C21_Witness ==
    /\ pc = "cb"
    /\ cb.split = "nil"
    /\ cbhist = << <<1, 3>>, <<2, 0>>, << >> >>
    /\ cb.freqs = <<1, 1, 1, 1>>

====
